---- MODULE Spec2Model ----
(***************************************************************************)
(* Word acquisition, validation and sampling pipeline of wordgen           *)
(* (src/src/wordFilter.ts, src/unnamed/part_003).                          *)
(*                                                                         *)
(* The repository holds several WordFilter classes.  Three are modelled,   *)
(* selected by the variable "variant":                                     *)
(*   "strict"    wordFilter.ts lines 492-1138  (no fallback, 24h cache)     *)
(*   "fallback"  unnamed/part_003              (fallback to 'common')       *)
(*   "denylist"  wordFilter.ts lines 1310-2099 (problem-word set, fallback) *)
(*                                                                         *)
(* A word is a sequence of one-character strings.                          *)
(***************************************************************************)
EXTENDS Integers, Sequences, FiniteSets, TLC

(***************************************************************************)
(* Characters and string primitives                                        *)
(***************************************************************************)
Lower ==
  <<"a","b","c","d","e","f","g","h","i","j","k","l","m",
    "n","o","p","q","r","s","t","u","v","w","x","y","z">>

Upper ==
  <<"A","B","C","D","E","F","G","H","I","J","K","L","M",
    "N","O","P","Q","R","S","T","U","V","W","X","Y","Z">>

LowerSet == {Lower[i] : i \in 1..26}

UpperSet == {Upper[i] : i \in 1..26}

Whitespace == {" "}

\* String.prototype.toLowerCase on one character
ToLowerChar(c) ==
  IF c \in UpperSet THEN Lower[CHOOSE i \in 1..26 : Upper[i] = c] ELSE c

toLowerCase(w) == [i \in 1..Len(w) |-> ToLowerChar(w[i])]

RECURSIVE TrimLeft(_)
TrimLeft(w) ==
  IF w # <<>> /\ Head(w) \in Whitespace THEN TrimLeft(Tail(w)) ELSE w

RECURSIVE TrimRight(_)
TrimRight(w) ==
  IF w # <<>> /\ w[Len(w)] \in Whitespace
    THEN TrimRight(SubSeq(w, 1, Len(w) - 1))
    ELSE w

\* String.prototype.trim
trim(w) == TrimRight(TrimLeft(w))

\* /^[a-z]+$/
IsLowerAlpha(w) == Len(w) > 0 /\ \A i \in 1..Len(w) : w[i] \in LowerSet

\* the pattern occurs at position i of w
MatchAt(w, pat, i) ==
  /\ i >= 1
  /\ i + Len(pat) - 1 <= Len(w)
  /\ \A k \in 1..Len(pat) : w[i + k - 1] = pat[k]

\* an unanchored literal pattern
Contains(w, pat) == \E i \in 1..Len(w) : MatchAt(w, pat, i)

\* a literal pattern anchored by $
EndsWith(w, pat) == MatchAt(w, pat, Len(w) - Len(pat) + 1)

\* a run of at least n characters of class S starts at position i
RunAt(w, S, n, i) ==
  /\ i >= 1
  /\ i + n - 1 <= Len(w)
  /\ \A k \in 0..(n - 1) : w[i + k] \in S

HasRun(w, S, n) == \E i \in 1..Len(w) : RunAt(w, S, n, i)

CountOf(w, c) == Cardinality({i \in 1..Len(w) : w[i] = c})

LettersOf(w) == {w[i] : i \in 1..Len(w)}

(***************************************************************************)
(* WordValidator                                                           *)
(***************************************************************************)
Variants == {"strict", "fallback", "denylist"}

vowels == {"a", "e", "i", "o", "u", "y"}

\* The bad-words list is an external package; these entries stand for it.
ProfaneWords == {<<"h","e","l","l">>, <<"d","a","m","n">>}

isProfane(w) == w \in ProfaneWords

hasVowel(w) == \E i \in 1..Len(w) : w[i] \in vowels

MaxCount(w) ==
  IF w = <<>> THEN 0
  ELSE CHOOSE n \in 1..Len(w) :
         /\ \E c \in LettersOf(w) : CountOf(w, c) = n
         /\ \A c \in LettersOf(w) : CountOf(w, c) <= n

\* a variant that compares the count with the whole length
hasExcessiveRepetitionWhole(w) == MaxCount(w) >= Len(w)

\* maxCount >= word.length / 2
hasExcessiveRepetitionStrict(w) == 2 * MaxCount(w) >= Len(w)

\* the first letter, in order of first occurrence, that reaches the maximum
MaxChar(w) ==
  w[CHOOSE i \in 1..Len(w) :
      /\ CountOf(w, w[i]) = MaxCount(w)
      /\ \A j \in 1..(i - 1) : CountOf(w, w[j]) < MaxCount(w)]

hasExcessiveRepetitionDenylist(w) ==
  IF w = <<>> THEN FALSE
  ELSE IF MaxCount(w) > Len(w) \div 2 THEN TRUE
  ELSE IF MaxCount(w) >= Len(w) \div 2
    THEN \E c \in LettersOf(w) : c # MaxChar(w) /\ CountOf(w, c) > 1
    ELSE FALSE

hasExcessiveRepetition(v, w) ==
  IF v = "denylist" THEN hasExcessiveRepetitionDenylist(w)
                    ELSE hasExcessiveRepetitionStrict(w)

Consonants(w) == Cardinality({i \in 1..Len(w) : w[i] \notin vowels})

\* maximal runs of vowels: word.match(/[aeiouy]+/g)
VowelGroupStarts(w) ==
  {i \in 1..Len(w) : w[i] \in vowels /\ (i = 1 \/ w[i - 1] \notin vowels)}

VowelGroupLen(w, i) ==
  CHOOSE n \in 1..Len(w) :
    /\ RunAt(w, vowels, n, i)
    /\ ~RunAt(w, vowels, n + 1, i)

\* word.toUpperCase() === word
IsAllCaps(w) == \A i \in 1..Len(w) : w[i] \notin LowerSet

isAbbreviation(v, w) ==
  \/ 10 * Consonants(w) > 7 * Len(w)
  \/ Len(w) <= 3 /\ Consonants(w) >= 2
  \/ v = "strict" /\ IsAllCaps(w) /\ Len(w) > 1
  \/ /\ Cardinality(VowelGroupStarts(w)) >= 3
     /\ \A i \in VowelGroupStarts(w) : VowelGroupLen(w, i) = 1

\* ukSpellingPatterns, each made a RegExp with flag i: 'our', 'ise' and
\* 'yse' carry no anchor
hasUKSpelling(w) ==
  LET lw == toLowerCase(w) IN
  \/ Contains(lw, <<"o","u","r">>)
  \/ Contains(lw, <<"i","s","e">>)
  \/ Contains(lw, <<"y","s","e">>)
  \/ EndsWith(lw, <<"r","e">>)
  \/ EndsWith(lw, <<"o","g","u","e">>)
  \/ Contains(lw, <<"a","e">>)
  \/ Contains(lw, <<"o","e">>)

isUKSpelling(w) ==
  \/ EndsWith(w, <<"o","u","r">>)
  \/ EndsWith(w, <<"i","s","e">>)
  \/ EndsWith(w, <<"y","s","e">>)
  \/ EndsWith(w, <<"r","e">>)
  \/ EndsWith(w, <<"o","g","u","e">>)
  \/ Contains(w, <<"a","e">>)
  \/ Contains(w, <<"o","e">>)

NotVowel(w) == LettersOf(w) \ vowels

\* a variant without the pattern /^[qwxzj]/
uncommonPatternsNoLeading(w) ==
  \/ HasRun(w, {"q","w","x"}, 2)
  \/ HasRun(w, {"j","z","x"}, 2)
  \/ RunAt(w, NotVowel(w), 3, 1)

\* the uncommonPatterns literal inside validateWord
uncommonPatternsStrict(w) ==
  \/ HasRun(w, {"q","w","x"}, 2)
  \/ HasRun(w, {"j","z","x"}, 2)
  \/ (w # <<>> /\ w[1] \in {"q","w","x","z","j"})
  \/ RunAt(w, NotVowel(w), 3, 1)

hasUncommonLetterPatterns(w) ==
  \/ HasRun(w, {"q","w","x","z"}, 2)
  \/ HasRun(w, {"j","z","x","q"}, 2)
  \/ (w # <<>> /\ w[1] \in {"q","w","x","z","j"})
  \/ RunAt(w, NotVowel(w), 3, 1)
  \/ HasRun(w, NotVowel(w), 4)

\* a variant with the upper limit one too high
LengthOutOfBoundsLoose(w) == Len(w) < 3 \/ Len(w) > 10

\* word.length < 3 || word.length > 9
LengthOutOfBounds(w) == Len(w) < 3 \/ Len(w) > 9

Valid == [isValid |-> TRUE, reason |-> "none"]

Invalid(r) == [isValid |-> FALSE, reason |-> r]

\* a variant that asks for an abbreviation before it counts repetitions
validateWordAbbreviationFirst(v, raw) ==
  IF raw = <<>> THEN Invalid("Invalid input")
  ELSE LET word == trim(toLowerCase(raw)) IN
    IF ~IsLowerAlpha(word) THEN Invalid("Word must contain only letters")
    ELSE IF LengthOutOfBounds(word)
      THEN Invalid("Word must be between 3 and 9 letters")
    ELSE IF isProfane(word) THEN Invalid("Word is inappropriate")
    ELSE IF ~hasVowel(word)
      THEN Invalid("Word must contain at least one vowel")
    ELSE IF isAbbreviation(v, word)
      THEN Invalid("Word appears to be an abbreviation or acronym")
    ELSE IF hasExcessiveRepetition(v, word)
      THEN Invalid("Word has too many repeated letters")
    ELSE IF hasUKSpelling(word) THEN Invalid("UK spelling variant")
    ELSE IF uncommonPatternsStrict(word)
      THEN Invalid("Contains uncommon letter patterns")
    ELSE Valid

\* validateWord of the strict and fallback variants
validateWordStrict(v, raw) ==
  IF raw = <<>> THEN Invalid("Invalid input")
  ELSE LET word == trim(toLowerCase(raw)) IN
    IF ~IsLowerAlpha(word) THEN Invalid("Word must contain only letters")
    ELSE IF LengthOutOfBounds(word)
      THEN Invalid("Word must be between 3 and 9 letters")
    ELSE IF isProfane(word) THEN Invalid("Word is inappropriate")
    ELSE IF ~hasVowel(word)
      THEN Invalid("Word must contain at least one vowel")
    ELSE IF hasExcessiveRepetition(v, word)
      THEN Invalid("Word has too many repeated letters")
    ELSE IF isAbbreviation(v, word)
      THEN Invalid("Word appears to be an abbreviation or acronym")
    ELSE IF hasUKSpelling(word) THEN Invalid("UK spelling variant")
    ELSE IF uncommonPatternsStrict(word)
      THEN Invalid("Contains uncommon letter patterns")
    ELSE Valid

\* validateWord of the denylist variant; loaded and problem are the fields
\* problemWordsLoaded and problemWords at the time of the call
validateWordDenylist(raw, loaded, problem) ==
  IF raw = <<>> THEN Invalid("Invalid input")
  ELSE LET word == trim(toLowerCase(raw)) IN
    IF ~IsLowerAlpha(word) THEN Invalid("Word must contain only letters")
    ELSE IF LengthOutOfBounds(word)
      THEN Invalid("Word must be between 3 and 9 letters")
    ELSE IF isProfane(word) THEN Invalid("Word is inappropriate")
    ELSE IF ~hasVowel(word)
      THEN Invalid("Word must contain at least one vowel")
    ELSE IF hasExcessiveRepetition("denylist", word)
      THEN Invalid("Word has problematic letter repetition")
    ELSE IF loaded /\ word \in problem
      THEN Invalid("Word is in the problematic words list")
    ELSE IF isUKSpelling(word) THEN Invalid("UK spelling variant")
    ELSE IF hasUncommonLetterPatterns(word)
      THEN Invalid("Contains uncommon letter patterns")
    ELSE Valid

validateWord(v, raw, loaded, problem) ==
  IF v = "denylist" THEN validateWordDenylist(raw, loaded, problem)
                    ELSE validateWordStrict(v, raw)

(***************************************************************************)
(* SourceRegistry: corpus URLs (as path segments) and source ids           *)
(***************************************************************************)
Host == "raw.githubusercontent.com"

\* WORD_CORPORA.COMMON_WORDS and HAPPY_SOURCES.GOOGLE_COMMON
COMMON_WORDS ==
  <<Host, "first20hours", "google-10000-english", "master",
    "google-10000-english-usa-no-swears.txt">>

GSL_WORDS == <<Host, "openvocabulary", "gsl", "master", "gsl.txt">>

\* WORD_CORPORA.ENABLE_WORDS and HAPPY_SOURCES.ENABLE
ENABLE_WORDS == <<Host, "dolph", "dictionary", "master", "enable1.txt">>

WORDNIK == <<Host, "wordnik", "wordlist", "main", "wordlist.txt">>

MEDICAL_TERMS ==
  <<Host, "glutanimate", "wordlist-medicaleponyms-en", "master",
    "wordlist.txt">>

\* the entries of SAD_SOURCES that are modelled
SAD_SOURCES == {MEDICAL_TERMS}

Urls == {COMMON_WORDS, GSL_WORDS, ENABLE_WORDS, WORDNIK} \cup SAD_SOURCES

\* the key under which preloadWordCache stores the common list
CommonId(v) == IF v = "denylist" THEN "google_common" ELSE "common"

\* an id that no case of the switch names
UnknownId == "mystery"

\* getAvailableSources: the ids a request selects from
SourceIds(v) ==
  CASE v = "strict"   -> {"common", "gsl"}
    [] v = "fallback" -> {"common", "enable"}
    [] v = "denylist" -> {"google_common", "wordnik"}

AllSourceIds == UNION {SourceIds(v) : v \in Variants}

\* the switch of fetchWordListBySource, default branch included
UrlOfSource(v, source) ==
  CASE v = "strict" /\ source = "gsl"        -> GSL_WORDS
    [] v = "fallback" /\ source = "enable"   -> ENABLE_WORDS
    [] v = "denylist" /\ source = "wordnik"  -> WORDNIK
    [] v = "denylist" /\ source = "enable"   -> ENABLE_WORDS
    [] OTHER                                 -> COMMON_WORDS

(***************************************************************************)
(* Corpora served by the network                                           *)
(***************************************************************************)
apple == <<"a","p","p","l","e">>

grape == <<"g","r","a","p","e">>

mango == <<"m","a","n","g","o">>

candy == <<"c","a","n","d","y">>

zebra == <<"z","e","b","r","a">>

qwxyz == <<"q","w","x","y","z">>

pst == <<"p","s","t">>

apgar == <<"a","p","g","a","r">>

\* the lines of the body a URL serves with status 200
Corpus(url) ==
  CASE url = COMMON_WORDS  -> <<apple, grape, mango, candy, zebra, qwxyz>>
    [] url = MEDICAL_TERMS -> << <<"A","p","g","a","r">> >>
    [] OTHER -> << <<"L","e","m","o","n"," ">>, apple, pst,
                   <<"i","t","'","s">>, <<"A","p","p","l","e">> >>

\* what one network request can produce
Responses(url) ==
  {[status |-> "ok", body |-> Corpus(url)],
   [status |-> "404", body |-> <<>>]}

(***************************************************************************)
(* CorpusFetcher                                                           *)
(***************************************************************************)
NormLine(line) == toLowerCase(trim(line))

\* words.map(word => String(word).trim().toLowerCase())
NormLines(body) == [i \in 1..Len(body) |-> NormLine(body[i])]

NonEmpty(w) == Len(w) > 0

\* the text branch of fetchWordList: split on newlines, trim, lower-case,
\* drop empty lines, keep /^[a-z]+$/
ParseBody(body) ==
  SelectSeq(SelectSeq(NormLines(body), NonEmpty), IsLowerAlpha)

Last(s) == s[Len(s)]

\* `wordlist_${url.split('/').pop()}`
cacheKey(url) == <<"wordlist_", Last(url)>>

DayMs == 24 * 60 * 60 * 1000

\* the freshness window of the persisted cache
FreshWindow(v) == IF v = "strict" THEN DayMs ELSE 7 * DayMs

(***************************************************************************)
(* Bounds of the model                                                     *)
(***************************************************************************)
\* longest source list of one request
MaxSources == 2

\* the small count a request may ask for, besides the default
SmallCount == 2

\* requests made over the life of the model
MaxCalls == 1

\* page reloads (new WordFilter instances over the same localStorage)
MaxReloads == 1

\* the default of the count parameter of generateWordsFromMultipleSources
DefaultCount == 100

(***************************************************************************)
(* State                                                                   *)
(***************************************************************************)
VARIABLES
  variant,            \* which WordFilter class is running
  now,                \* Date.now()
  storage,            \* localStorage: cache key -> {data, timestamp}
  wordCache,          \* this.wordCache: source id -> word list
  errorLog,           \* this.errorLog: source id -> message
  problemWords,       \* this.problemWords
  problemWordsLoaded, \* this.problemWordsLoaded
  preload,            \* position of preloadWordCache
  load,               \* the two loadProblemWords calls
  gen,                \* the generateWordsFromMultipleSources call
  fetchObs,           \* the fetchWordList calls made by the latest step
  persisted,          \* url -> what its latest network fetch persisted
  budget,             \* calls and reloads used so far
  vin,                \* argument of the latest validateWord call
  vout,               \* its result
  fw,                 \* a fetchWordList call made on its own
  single,             \* the generateWords call (one source)
  hook                \* state of the useWordGenerator hook and its calls

vars ==
  <<variant, now, storage, wordCache, errorLog, problemWords,
    problemWordsLoaded, preload, load, gen, fetchObs, persisted, budget,
    vin, vout, fw, single, hook>>

\* The empty Map / empty localStorage
EmptyMap == <<>>

MapSet(m, k, val) == (k :> val) @@ m

MapDelete(m, k) == [x \in (DOMAIN m) \ {k} |-> m[x]]

MapHas(m, k) == k \in DOMAIN m

(***************************************************************************)
(* fetchWordList, in its parts                                             *)
(***************************************************************************)
\* the cache read: an entry that parses and is younger than the window
CacheHit(v, st, t, url) ==
  /\ MapHas(st, cacheKey(url))
  /\ st[cacheKey(url)].kind = "json"
  /\ t - st[cacheKey(url)].timestamp < FreshWindow(v)

CachedData(st, url) == st[cacheKey(url)].data

\* localStorage.setItem(cacheKey, JSON.stringify({data, timestamp}))
Persist(st, t, url, words) ==
  MapSet(st, cacheKey(url), [kind |-> "json", data |-> words, timestamp |-> t])

Failure(msg) == [ok |-> FALSE, message |-> msg, words |-> <<>>]

\* a variant that returns the filtered list even when it is empty
FetchOutcomeLenient(url, resp) ==
  IF resp.status # "ok"
    THEN Failure("Failed to fetch word list: 404")
    ELSE [ok |-> TRUE, message |-> "", words |-> ParseBody(resp.body)]

\* what fetchWordList makes of a response: a list, or the error it throws
FetchOutcome(url, resp) ==
  IF resp.status = "timeout"
    THEN Failure("Request timed out. Please try again later.")
  ELSE IF resp.status # "ok"
    THEN Failure("Failed to fetch word list: 404")
  ELSE LET filteredWords == ParseBody(resp.body) IN
    IF filteredWords = <<>>
      THEN Failure("No valid words found in the word list")
      ELSE [ok |-> TRUE, message |-> "", words |-> filteredWords]

\* the observation of one fetchWordList call: whether it was served from
\* the persisted cache, what it returned then, and what a network fetch of
\* the same url persisted within the window before the call (if any)
Observe(v, st, t, per, url) ==
  [url |-> url,
   viaCache |-> CacheHit(v, st, t, url),
   data |-> IF CacheHit(v, st, t, url) THEN CachedData(st, url) ELSE <<>>,
   expect |-> IF MapHas(per, url) /\ t - per[url].timestamp < FreshWindow(v)
                THEN per[url].data ELSE <<>>]

Record(per, t, url, words) ==
  MapSet(per, url, [data |-> words, timestamp |-> t])

(***************************************************************************)
(* Construction                                                            *)
(***************************************************************************)
InRange(w) == Len(w) >= 3 /\ Len(w) <= 9

\* the pre-filter of preloadWordCache (denylist variant only)
PreFilterTest(w) ==
  InRange(w) /\ hasVowel(w) /\ ~hasExcessiveRepetitionDenylist(w)

PreFilter(v, words) ==
  IF v = "denylist" THEN SelectSeq(words, PreFilterTest) ELSE words

SeqToSet(s) == {s[i] : i \in 1..Len(s)}

LongEnough(w) == Len(w) >= 3 /\ IsLowerAlpha(w)

\* the .then of loadProblemWords for a source that is neither CITIES nor
\* COUNTRIES
ProcessedWords(words) == SeqToSet(SelectSeq(words, LongEnough))

IdleGen ==
  [pc |-> "idle", length |-> 0, sources |-> <<>>, count |-> 0, i |-> 0,
   allWords |-> <<>>, failedSources |-> <<>>, successSources |-> <<>>,
   availableWords |-> <<>>, resultWords |-> <<>>, validWords |-> <<>>,
   draws |-> 0, fetchFailed |-> {}, notFound |-> {}, fetchedOk |-> {},
   timer |-> "none", result |-> [kind |-> "none"]]

IdleLoad == [state |-> "idle", pending |-> {}, failed |-> {}]

\* loadProblemWords up to its await: one fetchWordList per sad source
StartLoad(v, st, t) ==
  [state |-> "running",
   pending |-> {u \in SAD_SOURCES : ~CacheHit(v, st, t, u)},
   failed |-> {}]

CachedProblemWords(v, st, t) ==
  UNION {ProcessedWords(CachedData(st, u)) :
           u \in {x \in SAD_SOURCES : CacheHit(v, st, t, x)}}

\* preloadWordCache up to its await
StartPreload(v, st, t) ==
  IF CacheHit(v, st, t, COMMON_WORDS)
    THEN [pc |-> "done"] ELSE [pc |-> "fetch"]

\* new WordFilter() over the localStorage st at time t
Construct(v, st, t, per) ==
  /\ wordCache' =
       IF CacheHit(v, st, t, COMMON_WORDS)
         THEN MapSet(EmptyMap, CommonId(v),
                     PreFilter(v, CachedData(st, COMMON_WORDS)))
         ELSE EmptyMap
  /\ errorLog' = EmptyMap
  /\ preload' = StartPreload(v, st, t)
  /\ load' = IF v = "denylist"
               THEN [i \in 1..2 |-> IF i = 1 THEN StartLoad(v, st, t)
                                             ELSE IdleLoad]
               ELSE [i \in 1..2 |-> IdleLoad]
  /\ problemWords' =
       IF v = "denylist" THEN CachedProblemWords(v, st, t) ELSE {}
  /\ problemWordsLoaded' = FALSE
  /\ gen' = IdleGen
  /\ fetchObs' =
       {Observe(v, st, t, per, u) :
          u \in {COMMON_WORDS} \cup
                (IF v = "denylist" THEN SAD_SOURCES ELSE {})}

NoCall == [isValid |-> FALSE, reason |-> "no call"]

\* no fetchWordList call of its own is running
NoFetch == [pc |-> "idle"]

\* no generateWords call is running
IdleSingle ==
  [pc |-> "idle", calls |-> 0, length |-> 0, source |-> "", count |-> 0,
   wordsList |-> <<>>, validWords |-> <<>>, availableWords |-> <<>>,
   resultWords |-> <<>>, result |-> [kind |-> "none"]]

\* a generateWords callback of the hook that is not running
IdleCallback ==
  [pc |-> "idle", seq |-> 0, length |-> 0, sources |-> <<>>, wait |-> FALSE]

\* useState([]), useState(false), useState(null): error is <<>> for null and
\* <<message>> otherwise
MountedHook ==
  [generatedWords |-> <<>>, isLoading |-> FALSE, error |-> <<>>,
   started |-> 0, last |-> [kind |-> "none"],
   cb |-> [k \in 1..2 |-> IdleCallback]]

\* the instance after its constructor
Constructed ==
  /\ variant \in Variants
  /\ now = 0
  /\ storage = EmptyMap
  /\ wordCache = EmptyMap
  /\ errorLog = EmptyMap
  /\ preload = [pc |-> "fetch"]
  /\ load = IF variant = "denylist"
              THEN [i \in 1..2 |-> IF i = 1
                                     THEN StartLoad(variant, EmptyMap, 0)
                                     ELSE IdleLoad]
              ELSE [i \in 1..2 |-> IdleLoad]
  /\ problemWords = {}
  /\ problemWordsLoaded = FALSE
  /\ gen = IdleGen
  /\ fetchObs = {}
  /\ persisted = EmptyMap
  /\ budget = [calls |-> 0, reloads |-> 0]
  /\ vout = NoCall
  /\ fw = NoFetch
  /\ single = IdleSingle
  /\ hook = MountedHook

Init == Constructed /\ vin = <<>>

(***************************************************************************)
(* preloadWordCache                                                        *)
(***************************************************************************)
Done == [pc |-> "done"]

\* the response to the preload's request for the common list
PreloadResponse ==
  /\ preload.pc = "fetch"
  /\ \E resp \in Responses(COMMON_WORDS) :
       LET out == FetchOutcome(COMMON_WORDS, resp) IN
       IF out.ok
         THEN /\ storage' = Persist(storage, now, COMMON_WORDS, out.words)
              /\ persisted' = Record(persisted, now, COMMON_WORDS, out.words)
              /\ wordCache' = MapSet(wordCache, CommonId(variant),
                                     PreFilter(variant, out.words))
              /\ preload' = Done
              /\ fetchObs' = {}
              /\ UNCHANGED errorLog
         ELSE /\ errorLog' = MapSet(errorLog, CommonId(variant), out.message)
              /\ UNCHANGED <<storage, persisted>>
              /\ IF variant = "strict"
                   THEN /\ preload' = Done
                        /\ fetchObs' = {}
                        /\ UNCHANGED wordCache
                   ELSE \* try the ENABLE list as a fallback
                        /\ fetchObs' = {Observe(variant, storage, now,
                                                persisted, ENABLE_WORDS)}
                        /\ IF CacheHit(variant, storage, now, ENABLE_WORDS)
                             THEN /\ wordCache' =
                                       MapSet(wordCache, CommonId(variant),
                                              PreFilter(variant,
                                                CachedData(storage,
                                                           ENABLE_WORDS)))
                                  /\ preload' = Done
                             ELSE /\ preload' = [pc |-> "fallbackFetch"]
                                  /\ UNCHANGED wordCache
  /\ UNCHANGED <<variant, now, problemWords, problemWordsLoaded, load, gen,
                 budget, vin, vout, fw, single, hook>>

\* the response to the preload's request for the ENABLE list
PreloadFallbackResponse ==
  /\ preload.pc = "fallbackFetch"
  /\ \E resp \in Responses(ENABLE_WORDS) :
       LET out == FetchOutcome(ENABLE_WORDS, resp) IN
       IF out.ok
         THEN /\ storage' = Persist(storage, now, ENABLE_WORDS, out.words)
              /\ persisted' = Record(persisted, now, ENABLE_WORDS, out.words)
              /\ wordCache' = MapSet(wordCache, CommonId(variant),
                                     PreFilter(variant, out.words))
         ELSE UNCHANGED <<storage, persisted, wordCache>>
  /\ preload' = Done
  /\ fetchObs' = {}
  /\ UNCHANGED <<variant, now, errorLog, problemWords, problemWordsLoaded,
                 load, gen, budget, vin, vout, fw, single, hook>>

(***************************************************************************)
(* loadProblemWords                                                        *)
(***************************************************************************)
senate == <<"s","e","n","a","t","e">>

\* words of the model that addManualPatterns can generate: a random base
\* of 3 to 5 letters followed by a technical suffix (here 'ate')
ManualCandidates == {senate}

\* the response to the request of load i for the sad source u
LoadResponse(i, u) ==
  /\ load[i].state = "running"
  /\ u \in load[i].pending
  /\ \E resp \in Responses(u) :
       LET out == FetchOutcome(u, resp) IN
       IF out.ok
         THEN /\ storage' = Persist(storage, now, u, out.words)
              /\ persisted' = Record(persisted, now, u, out.words)
              /\ problemWords' = problemWords \cup ProcessedWords(out.words)
              /\ load' = [load EXCEPT ![i].pending = @ \ {u}]
         ELSE \* .catch: console.error only
              /\ load' = [load EXCEPT ![i].pending = @ \ {u},
                                      ![i].failed = @ \cup {u}]
              /\ UNCHANGED <<storage, persisted, problemWords>>
  /\ fetchObs' = {}
  /\ UNCHANGED <<variant, now, wordCache, errorLog, problemWordsLoaded,
                 preload, gen, budget, vin, vout, fw, single, hook>>

\* after Promise.allSettled: addManualPatterns, then the loaded flag
LoadFinish(i) ==
  /\ load[i].state = "running"
  /\ load[i].pending = {}
  /\ \E extra \in SUBSET ManualCandidates :
       problemWords' = problemWords \cup extra
  /\ problemWordsLoaded' = TRUE
  /\ load' = [load EXCEPT ![i].state = "done"]
  /\ fetchObs' = {}
  /\ UNCHANGED <<variant, now, storage, persisted, wordCache, errorLog,
                 preload, gen, budget, vin, vout, fw, single, hook>>

(***************************************************************************)
(* generateWordsFromMultipleSources                                        *)
(***************************************************************************)
RECURSIVE AddAll(_, _)
\* a variant that only leaves out what the set already held
AddUnseen(set, items) ==
  LET Unseen(w) == w \notin SeqToSet(set) IN set \o SelectSeq(items, Unseen)

\* a variant that keeps an array: Array.prototype.push for each item
PushAll(set, items) == set \o items

\* Set.prototype.add for each item, in order
AddAll(set, items) ==
  IF items = <<>> THEN set
  ELSE AddAll(IF Head(items) \in SeqToSet(set) THEN set
                                               ELSE Append(set, Head(items)),
              Tail(items))

Returned(words, failed) ==
  [kind |-> "ok", words |-> words, failedSources |-> failed, error |-> ""]

Raised(msg) ==
  [kind |-> "error", words |-> <<>>, failedSources |-> <<>>, error |-> msg]

InputError == "At least one word source must be selected"

AllSourcesFailed ==
  "Could not fetch words from any of the selected sources. Please try again later."

\* the message names the requested length
NoMatches == "No valid words of length ${length} found in the selected sources."

\* the body of the loop for a source whose list was obtained
Iterate(g, source, sourceWords) ==
  LET OfLength(w) == Len(w) = g.length
      validLengthWords == SelectSeq(sourceWords, OfLength)
  IN IF Len(validLengthWords) > 0
       THEN [g EXCEPT !.allWords = AddAll(@, validLengthWords),
                      !.successSources = Append(@, source)]
       ELSE [g EXCEPT !.failedSources = Append(@, source)]

\* the catch of the loop
Thrown(g, source) == [g EXCEPT !.failedSources = Append(@, source)]

\* the code after the loop, up to the sampling loop
Finalize(v, g, loaded, problem) ==
  LET IsOk(w) == validateWord(v, w, loaded, problem).isValid
      validWords == SelectSeq(g.allWords, IsOk)
      g1 == [g EXCEPT !.validWords = validWords, !.pc = "done"]
  IN IF Len(validWords) = 0
       THEN [g1 EXCEPT !.result =
               IF Len(g.failedSources) = Len(g.sources)
                 THEN Raised(AllSourcesFailed) ELSE Raised(NoMatches)]
     ELSE IF Len(validWords) <= g.count
       THEN [g1 EXCEPT !.result = Returned(validWords, g.failedSources)]
     ELSE IF ~(0 < g.count)
       THEN [g1 EXCEPT !.result = Returned(<<>>, g.failedSources)]
     ELSE [g1 EXCEPT !.pc = "sample", !.availableWords = validWords,
                     !.resultWords = <<>>]

\* the next iteration, or the code after the loop
Advance(v, g, loaded, problem) ==
  IF g.i < Len(g.sources)
    THEN [g EXCEPT !.i = @ + 1, !.pc = "loop"]
    ELSE Finalize(v, g, loaded, problem)

\* for (const source of sources): the first iteration, or none
EnterLoop(v, g, loaded, problem) ==
  Advance(v, [g EXCEPT !.i = 0], loaded, problem)

\* a variant without the check of the selection
RejectsNothing(sources) == FALSE

\* if (sources.length === 0) throw ...
RejectsInput(sources) == Len(sources) = 0

\* the selections of the UI: lists of ids without repetition
SourceLists ==
  {s \in UNION {[1..n -> AllSourceIds] : n \in 0..MaxSources} :
     \A j, k \in 1..Len(s) : j # k => s[j] # s[k]}

Lengths == {3, 5}

Counts == {SmallCount, DefaultCount}

\* the call, up to its first await
GenCall(length, sources, count) ==
  /\ gen.pc = "idle"
  /\ budget.calls < MaxCalls
  /\ \A k \in 1..Len(sources) :
       sources[k] \in SourceIds(variant) \cup {UnknownId}
  /\ budget' = [budget EXCEPT !.calls = @ + 1]
  /\ IF RejectsInput(sources)
       THEN /\ gen' = [IdleGen EXCEPT !.pc = "done", !.length = length,
                                      !.count = count,
                                      !.result = Raised(InputError)]
            /\ fetchObs' = {}
            /\ UNCHANGED <<load, problemWords>>
       ELSE LET g == [IdleGen EXCEPT !.length = length, !.sources = sources,
                                     !.count = count, !.i = 1]
            IN IF variant = "denylist" /\ ~problemWordsLoaded
                 THEN /\ gen' = [g EXCEPT !.pc = "awaitLoad"]
                      /\ load' = [load EXCEPT
                                    ![2] = StartLoad(variant, storage, now)]
                      /\ problemWords' = problemWords \cup
                           CachedProblemWords(variant, storage, now)
                      /\ fetchObs' = {Observe(variant, storage, now,
                                              persisted, u) :
                                        u \in SAD_SOURCES}
                 ELSE /\ gen' = EnterLoop(variant, g, problemWordsLoaded,
                                          problemWords)
                      /\ fetchObs' = {}
                      /\ UNCHANGED <<load, problemWords>>
  /\ UNCHANGED <<variant, now, storage, persisted, wordCache, errorLog,
                 problemWordsLoaded, preload, vin, vout, fw, single, hook>>

\* the awaited loadProblemWords has returned
GenAfterLoad ==
  /\ gen.pc = "awaitLoad"
  /\ load[2].state = "done"
  /\ gen' = EnterLoop(variant, gen, problemWordsLoaded, problemWords)
  /\ fetchObs' = {}
  /\ UNCHANGED <<variant, now, storage, persisted, wordCache, errorLog,
                 problemWords, problemWordsLoaded, preload, load, budget,
                 vin, vout, fw, single, hook>>

\* errorLog.delete(source) after a success: not in the strict variant
ClearError(v, log, source) ==
  IF v = "strict" THEN log ELSE MapDelete(log, source)

\* fetchWordListBySource(sources[i]) up to the network request
GenStep ==
  /\ gen.pc = "loop"
  /\ LET source == gen.sources[gen.i]
         url == UrlOfSource(variant, source)
         g == [gen EXCEPT !.fetchedOk = @ \cup {source}]
     IN IF MapHas(wordCache, source)
          THEN /\ gen' = Advance(variant, Iterate(g, source, wordCache[source]),
                                 problemWordsLoaded, problemWords)
               /\ fetchObs' = {}
               /\ UNCHANGED <<wordCache, errorLog>>
          ELSE /\ fetchObs' = {Observe(variant, storage, now, persisted, url)}
               /\ IF CacheHit(variant, storage, now, url)
                    THEN /\ wordCache' = MapSet(wordCache, source,
                                                CachedData(storage, url))
                         /\ errorLog' = ClearError(variant, errorLog, source)
                         /\ gen' = Advance(variant,
                                     Iterate(g, source,
                                             CachedData(storage, url)),
                                     problemWordsLoaded, problemWords)
                    ELSE /\ gen' = [gen EXCEPT !.pc = "await",
                                                !.timer = "armed"]
                         /\ UNCHANGED <<wordCache, errorLog>>
  /\ UNCHANGED <<variant, now, storage, persisted, problemWords,
                 problemWordsLoaded, preload, load, budget, vin, vout,
                 fw, single, hook>>

\* whether the catch of fetchWordListBySource can fall back to the common list
CanFallBack(v, cache, source) ==
  /\ v # "strict"
  /\ source # CommonId(v)
  /\ MapHas(cache, CommonId(v))

\* controller.abort() when the timer set before the request expires
TimedOut == [status |-> "timeout", body |-> <<>>]

\* The orchestrator's request in its two awaits: `await fetch(...)` ends with
\* the status line, then clearTimeout(timeoutId), then `await
\* response.text()` ends with the body.  What can end the pending await:
\* a status that is not ok ends the first, the body ends the second, the
\* timer ends either while it is armed.
Deliverable(g, resp) ==
  CASE resp.status = "ok"      -> g.pc = "awaitBody"
    [] resp.status = "timeout" -> g.timer = "armed"
    [] OTHER                   -> g.pc = "await"

\* `await fetch(...)` resolves with an ok status; clearTimeout(timeoutId)
GenHeaders ==
  /\ gen.pc = "await"
  /\ gen' = [gen EXCEPT !.pc = "awaitBody", !.timer = "cleared"]
  /\ fetchObs' = {}
  /\ UNCHANGED <<variant, now, storage, persisted, wordCache, errorLog,
                 problemWords, problemWordsLoaded, preload, load, budget,
                 vin, vout, fw, single, hook>>

\* the end of the request made for sources[i]
GenResponse ==
  /\ gen.pc \in {"await", "awaitBody"}
  /\ LET source == gen.sources[gen.i]
         url == UrlOfSource(variant, source)
     IN \E resp \in {r \in Responses(url) \cup {TimedOut} :
                       Deliverable(gen, r)} :
       LET out == FetchOutcome(url, resp)
           gOk == [gen EXCEPT !.fetchedOk = @ \cup {source},
                              !.timer = "none"]
           gBad == [gen EXCEPT !.fetchFailed = @ \cup {source},
                               !.timer = "none",
                               !.notFound = IF resp.status = "404"
                                              THEN @ \cup {source} ELSE @]
       IN IF out.ok
            THEN /\ storage' = Persist(storage, now, url, out.words)
                 /\ persisted' = Record(persisted, now, url, out.words)
                 /\ wordCache' = MapSet(wordCache, source, out.words)
                 /\ errorLog' = ClearError(variant, errorLog, source)
                 /\ gen' = Advance(variant, Iterate(gOk, source, out.words),
                                   problemWordsLoaded, problemWords)
            ELSE /\ errorLog' = MapSet(errorLog, source, out.message)
                 /\ UNCHANGED <<storage, persisted>>
                 /\ IF CanFallBack(variant, wordCache, source)
                      THEN LET commonWords == wordCache[CommonId(variant)] IN
                           /\ wordCache' = MapSet(wordCache, source,
                                                  commonWords)
                           /\ gen' = Advance(variant,
                                       Iterate(gBad, source, commonWords),
                                       problemWordsLoaded, problemWords)
                      ELSE /\ gen' = Advance(variant, Thrown(gBad, source),
                                             problemWordsLoaded, problemWords)
                           /\ UNCHANGED wordCache
  /\ fetchObs' = {}
  /\ UNCHANGED <<variant, now, problemWords, problemWordsLoaded, preload,
                 load, budget, vin, vout, fw, single, hook>>

\* a variant that removes the first element: splice(0, 1)
RemoveFirst(s, k) == Tail(s)

\* availableWords.splice(randomIndex, 1)
RemoveAt(s, k) == SubSeq(s, 1, k - 1) \o SubSeq(s, k + 1, Len(s))

\* one pass of the sampling loop; randomIndex is any index of availableWords
GenDraw ==
  /\ gen.pc = "sample"
  /\ Len(gen.resultWords) < gen.count
  /\ Len(gen.availableWords) > 0
  /\ \E randomIndex \in 1..Len(gen.availableWords) :
       LET picked == gen.availableWords[randomIndex]
           res == AddAll(gen.resultWords, <<picked>>)
           rest == RemoveAt(gen.availableWords, randomIndex)
           g == [gen EXCEPT !.resultWords = res, !.availableWords = rest,
                            !.draws = @ + 1]
       IN gen' = IF Len(res) < gen.count /\ Len(rest) > 0
                   THEN g
                   ELSE [g EXCEPT !.pc = "done",
                                  !.result = Returned(res, gen.failedSources)]
  /\ fetchObs' = {}
  /\ UNCHANGED <<variant, now, storage, persisted, wordCache, errorLog,
                 problemWords, problemWordsLoaded, preload, load, budget,
                 vin, vout, fw, single, hook>>

\* the caller takes the result
GenReturn ==
  /\ gen.pc = "done"
  /\ gen' = IdleGen
  /\ fetchObs' = {}
  /\ UNCHANGED <<variant, now, storage, persisted, wordCache, errorLog,
                 problemWords, problemWordsLoaded, preload, load, budget,
                 vin, vout, fw, single, hook>>

(***************************************************************************)
(* Environment: page reloads and the clock                                 *)
(***************************************************************************)
\* some request is waiting for its response
InFlight ==
  \/ preload.pc \in {"fetch", "fallbackFetch"}
  \/ gen.pc \in {"await", "awaitBody"}
  \/ \E i \in 1..2 : load[i].pending # {}

\* nothing of the instance is running
Quiescent ==
  /\ ~InFlight
  /\ gen.pc = "idle"
  /\ \A i \in 1..2 : load[i].state # "running"

\* days that pass before the page is loaded again
ReloadDays == {0, 1, 7}

\* The page is loaded again after some days: a new WordFilter over the same
\* localStorage.  A request is over within its timeout, so days pass only
\* between requests.
Reload ==
  /\ Quiescent
  /\ budget.reloads < MaxReloads
  /\ budget' = [budget EXCEPT !.reloads = @ + 1]
  /\ \E days \in ReloadDays :
       /\ now' = now + days * DayMs
       /\ Construct(variant, storage, now', persisted)
  /\ UNCHANGED <<variant, storage, persisted, vin, vout, fw, single, hook>>

Next ==
  \/ PreloadResponse
  \/ PreloadFallbackResponse
  \/ \E i \in 1..2 : \E u \in SAD_SOURCES : LoadResponse(i, u)
  \/ \E i \in 1..2 : LoadFinish(i)
  \/ \E length \in Lengths : \E sources \in SourceLists :
       \E count \in Counts : GenCall(length, sources, count)
  \/ GenAfterLoad
  \/ GenStep
  \/ GenHeaders
  \/ GenResponse
  \/ GenDraw
  \/ GenReturn
  \/ Reload

Spec == Init /\ [][Next]_vars

\* requests that select an id the switch does not name
UnknownLists ==
  {<<UnknownId>>} \cup {<<s, UnknownId>> : s \in AllSourceIds}

NextRegistry ==
  \/ PreloadResponse
  \/ PreloadFallbackResponse
  \/ \E i \in 1..2 : \E u \in SAD_SOURCES : LoadResponse(i, u)
  \/ \E i \in 1..2 : LoadFinish(i)
  \/ \E sources \in UnknownLists : GenCall(5, sources, SmallCount)
  \/ GenAfterLoad
  \/ GenStep
  \/ GenHeaders
  \/ GenResponse
  \/ GenDraw
  \/ GenReturn
  \/ Reload

SpecRegistry == Init /\ [][NextRegistry]_vars

(***************************************************************************)
(* validateWord as a call                                                  *)
(***************************************************************************)
\* longest base word given to validateWord
MaxWordLen == 10

\* longest base word that is also given capitalised and padded
MaxDecorated == 5

BaseLetters == {"a", "b", "t"}

BaseWords == UNION {[1..n -> BaseLetters] : n \in 0..MaxWordLen}

ShortWords == {w \in BaseWords : Len(w) >= 1 /\ Len(w) <= MaxDecorated}

ToUpperChar(c) ==
  IF c \in LowerSet THEN Upper[CHOOSE i \in 1..26 : Lower[i] = c] ELSE c

Capitalised(w) == [w EXCEPT ![1] = ToUpperChar(@)]

Padded(w) == <<" ">> \o w \o <<" ">>

\* words that carry the letter groups of the regional-spelling patterns, at
\* the end and before it
SpellingWords ==
  { <<"c","o","l","o","u","r">>, <<"t","o","u","r","i","s","t">>,
    <<"r","a","i","s","e">>, <<"w","i","s","e","r">>,
    <<"a","n","a","l","y","s","e">>, <<"l","y","s","e","d">>,
    <<"c","e","n","t","r","e">>, <<"r","e","n","t","a","l">>,
    <<"d","i","a","l","o","g","u","e">>, <<"r","o","g","u","e","s">>,
    <<"p","a","e","a","n">>, <<"p","o","e","t","i","c">>,
    <<"p","l","a","n","e","t">> }

\* the arguments validateWord is called with
InputWords ==
  BaseWords \cup {Capitalised(w) : w \in ShortWords}
            \cup {Padded(w) : w \in ShortWords}
            \cup SpellingWords

\* the words validateWord is asked about while the problem words load
ProbeWords == {apgar, senate, apple}

\* validateWord(w) on the instance
ValidateCall(w) ==
  /\ vin' = w
  /\ vout' = validateWord(variant, w, problemWordsLoaded, problemWords)
  /\ UNCHANGED <<variant, now, storage, wordCache, errorLog, problemWords,
                 problemWordsLoaded, preload, load, gen, fetchObs, persisted,
                 budget, fw, single, hook>>

\* validateWord applied once to an argument chosen beforehand
InitValidate == Constructed /\ vin \in InputWords

NextValidate == vout = NoCall /\ ValidateCall(vin)

SpecValidate == InitValidate /\ [][NextValidate]_vars

\* validateWord while the instance loads its lists
NextLoading ==
  \/ PreloadResponse
  \/ PreloadFallbackResponse
  \/ \E i \in 1..2 : \E u \in SAD_SOURCES : LoadResponse(i, u)
  \/ \E i \in 1..2 : LoadFinish(i)
  \/ Reload
  \/ \E w \in ProbeWords : ValidateCall(w)

SpecLoading == Init /\ [][NextLoading]_vars

(***************************************************************************)
(* fetchWordList called on its own, over any localStorage                  *)
(***************************************************************************)
\* HAPPY_SOURCES.COMMON_MULTI: a url that ends in .json
COMMON_MULTI ==
  <<Host, "skedwards88", "word_lists", "main", "compiled",
    "commonWords.json">>

\* SAD_SOURCES.CHEMICAL_ELEMENTS: a url that ends in .csv
CHEMICAL_ELEMENTS ==
  <<"gist.githubusercontent.com", "GoodmanSciences",
    "c2dd862cd38f21b0ad36b8f96b4bf1ee", "raw",
    "Periodic%2520Table%2520of%2520Elements.csv">>

\* url.endsWith('.json')
JsonUrls == {COMMON_MULTI}

\* url.endsWith('.csv')
CsvUrls == {CHEMICAL_ELEMENTS}

\* the urls fetchWordList is called with: the catalogue of the class
CatalogUrls(v) ==
  CASE v = "strict"   -> {COMMON_WORDS, GSL_WORDS}
    [] v = "fallback" -> {COMMON_WORDS, ENABLE_WORDS}
    [] v = "denylist" -> {COMMON_WORDS, WORDNIK, MEDICAL_TERMS, COMMON_MULTI,
                          CHEMICAL_ELEMENTS}

RECURSIVE FirstColumn(_)
\* line.split(',')[0]
FirstColumn(line) ==
  IF line = <<>> \/ Head(line) = "," THEN <<>>
  ELSE <<Head(line)>> \o FirstColumn(Tail(line))

FirstColumns(body) == [i \in 1..Len(body) |-> FirstColumn(body[i])]

\* The tokens of a body: the lines of a text, the first column of each
\* line of a CSV, the strings of a JSON array.  A body is given as the
\* sequence of its lines, or of its array's strings.
Tokens(url, body) == IF url \in CsvUrls THEN FirstColumns(body) ELSE body

\* The words fetchWordList makes of a body.  Only the denylist class has
\* .json and .csv urls in its catalogue; its JSON and CSV branches pass the
\* strings on as they are, and only its text branch trims and lower-cases.
ParseIn(v, url, body) ==
  IF v = "denylist" /\ url \in JsonUrls \cup CsvUrls
    THEN SelectSeq(SelectSeq(Tokens(url, body), NonEmpty), IsLowerAlpha)
    ELSE ParseBody(body)

EmptyResult == "No valid words found in the word list"

\* what fetchWordList makes of a response to a request for url
FetchOutcomeIn(v, url, resp) ==
  IF url \in JsonUrls \cup CsvUrls /\ resp.status = "ok"
    THEN LET filteredWords == ParseIn(v, url, resp.body) IN
         IF filteredWords = <<>>
           THEN Failure(EmptyResult)
           ELSE [ok |-> TRUE, message |-> "", words |-> filteredWords]
    ELSE FetchOutcome(url, resp)

\* a body without a word
JunkBody == << <<"1","2","3">>, <<"i","t","'","s">>, <<" ">> >>

\* a body whose words come capitalised and padded
DecoratedBody == << <<" ","A","p","p","l","e"," ">>, grape >>

\* what a request for url can produce
FetchResponses(url) ==
  Responses(url) \cup {[status |-> "ok", body |-> JunkBody],
                       [status |-> "ok", body |-> DecoratedBody]}

\* Entries localStorage may hold when the page is loaded.  An entry that
\* JSON.parse rejects has kind "garbage"; one without a timestamp has kind
\* "noTimestamp" (Date.now() - undefined is NaN, and NaN < window is false).
FreshEntry == [kind |-> "json", data |-> <<apple, grape>>, timestamp |-> 0]

StaleEntry ==
  [kind |-> "json", data |-> <<apple, grape>>, timestamp |-> 0 - 8 * DayMs]

GarbageEntry == [kind |-> "garbage"]

NoTimestampEntry == [kind |-> "noTimestamp", data |-> <<apple, grape>>]

\* data that is not a list of lower-case words
WrongShapeEntry ==
  [kind |-> "json", data |-> << <<"A","p","p","l","e","!">> >>,
   timestamp |-> 0]

FoundEntries ==
  {FreshEntry, StaleEntry, GarbageEntry, NoTimestampEntry, WrongShapeEntry}

InitialStorages ==
  {EmptyMap} \cup {MapSet(EmptyMap, cacheKey(COMMON_WORDS), e) :
                     e \in FoundEntries}

\* fetchWordList calls of one run
MaxFetches == 3

\* times the clock is moved between the calls
MaxElapses == 1

\* no entry under the key
NoEntry == [kind |-> "missing"]

\* the instance with no call made yet, over a localStorage of any content
InitFetch ==
  /\ variant \in Variants
  /\ now = 0
  /\ storage \in InitialStorages
  /\ wordCache = EmptyMap
  /\ errorLog = EmptyMap
  /\ preload = Done
  /\ load = [i \in 1..2 |-> IdleLoad]
  /\ problemWords = {}
  /\ problemWordsLoaded = FALSE
  /\ gen = IdleGen
  /\ fetchObs = {}
  /\ persisted = EmptyMap
  /\ budget = [calls |-> 0, reloads |-> 0]
  /\ vin = <<>>
  /\ vout = NoCall
  /\ fw = [pc |-> "idle", calls |-> 0, elapses |-> 0, writer |-> EmptyMap]
  /\ single = IdleSingle
  /\ hook = MountedHook

\* fetchWordList(url) up to its return from the cache or to its request
FetchCall(url) ==
  /\ fw.pc \in {"idle", "done"}
  /\ fw.calls < MaxFetches
  /\ url \in CatalogUrls(variant)
  /\ LET key == cacheKey(url)
         read == IF MapHas(storage, key) THEN storage[key] ELSE NoEntry
         call == [calls |-> fw.calls + 1, elapses |-> fw.elapses,
                  writer |-> fw.writer, url |-> url, read |-> read,
                  at |-> now]
     IN fw' = IF CacheHit(variant, storage, now, url)
                THEN call @@ [pc |-> "done", viaCache |-> TRUE,
                              result |-> [ok |-> TRUE, message |-> "",
                                          words |-> CachedData(storage, url)]]
                ELSE call @@ [pc |-> "await"]
  /\ UNCHANGED <<variant, now, storage, wordCache, errorLog, problemWords,
                 problemWordsLoaded, preload, load, gen, fetchObs, persisted,
                 budget, vin, vout, single, hook>>

\* the response to the request of fetchWordList(fw.url)
FetchReturn ==
  /\ fw.pc = "await"
  /\ \E resp \in FetchResponses(fw.url) :
       LET out == FetchOutcomeIn(variant, fw.url, resp)
           call == [calls |-> fw.calls, elapses |-> fw.elapses,
                    url |-> fw.url, read |-> fw.read, at |-> fw.at,
                    pc |-> "done", viaCache |-> FALSE, resp |-> resp,
                    result |-> out]
       IN IF out.ok
            THEN /\ storage' = Persist(storage, now, fw.url, out.words)
                 /\ persisted' = Record(persisted, now, fw.url, out.words)
                 /\ fw' = call @@ [writer |-> MapSet(fw.writer,
                                                     cacheKey(fw.url),
                                                     fw.url)]
            ELSE /\ fw' = call @@ [writer |-> fw.writer]
                 /\ UNCHANGED <<storage, persisted>>
  /\ UNCHANGED <<variant, now, wordCache, errorLog, problemWords,
                 problemWordsLoaded, preload, load, gen, fetchObs, budget,
                 vin, vout, single, hook>>

\* days pass between two calls
Elapse ==
  /\ fw.pc \in {"idle", "done"}
  /\ fw.elapses < MaxElapses
  /\ \E days \in ReloadDays \ {0} : now' = now + days * DayMs
  /\ fw' = [fw EXCEPT !.elapses = @ + 1]
  /\ UNCHANGED <<variant, storage, wordCache, errorLog, problemWords,
                 problemWordsLoaded, preload, load, gen, fetchObs, persisted,
                 budget, vin, vout, single, hook>>

NextFetch ==
  \/ \E url \in Urls \cup JsonUrls \cup CsvUrls : FetchCall(url)
  \/ FetchReturn
  \/ Elapse

SpecFetch == InitFetch /\ [][NextFetch]_vars

(***************************************************************************)
(* generateWords: one source                                               *)
(***************************************************************************)
\* count: number = 50
SingleDefault == 50

\* generateWords calls made in one run
MaxSingles == 2

SingleCounts == {SmallCount, SingleDefault}

\* the messages name the requested length
NoWordsOfLength == "No words of length ${length} found in the selected source."

NoValidWords ==
  "No valid words of length ${length} found in the selected source."

Resolved(words) == [kind |-> "ok", words |-> words, error |-> ""]

Rejected(msg) == [kind |-> "error", words |-> <<>>, error |-> msg]

\* generateWords after fetchWordListBySource has returned wordsList, up to
\* the sampling loop
Select(v, o, wordsList, loaded, problem) ==
  LET OfLength(w) == Len(w) = o.length
      IsOk(w) == validateWord(v, w, loaded, problem).isValid
      lengthWords == SelectSeq(wordsList, OfLength)
      validWords == SelectSeq(lengthWords, IsOk)
      o1 == [o EXCEPT !.wordsList = wordsList, !.validWords = validWords,
                      !.pc = "done"]
  IN IF v = "denylist" /\ Len(lengthWords) = 0
       THEN [o1 EXCEPT !.result = Rejected(NoWordsOfLength)]
     ELSE IF Len(validWords) = 0
       THEN [o1 EXCEPT !.result = Rejected(NoValidWords)]
     ELSE IF Len(validWords) <= o.count
       THEN [o1 EXCEPT !.result = Resolved(validWords)]
     ELSE IF ~(0 < o.count)
       THEN [o1 EXCEPT !.result = Resolved(<<>>)]
     ELSE [o1 EXCEPT !.pc = "sample", !.availableWords = validWords,
                     !.resultWords = <<>>]

\* generateWords(length, source, count) up to its first await
SingleCall(length, source, count) ==
  /\ single.pc = "idle"
  /\ single.calls < MaxSingles
  /\ source \in SourceIds(variant)
  /\ LET o == [IdleSingle EXCEPT !.calls = single.calls + 1,
                                 !.length = length, !.source = source,
                                 !.count = count]
     IN IF variant = "denylist" /\ ~problemWordsLoaded
          THEN /\ single' = [o EXCEPT !.pc = "awaitLoad"]
               /\ load' = [load EXCEPT ![2] = StartLoad(variant, storage, now)]
               /\ problemWords' = problemWords \cup
                    CachedProblemWords(variant, storage, now)
               /\ fetchObs' = {Observe(variant, storage, now, persisted, u) :
                                 u \in SAD_SOURCES}
          ELSE /\ single' = [o EXCEPT !.pc = "fetch"]
               /\ fetchObs' = {}
               /\ UNCHANGED <<load, problemWords>>
  /\ UNCHANGED <<variant, now, storage, persisted, wordCache, errorLog,
                 problemWordsLoaded, preload, gen, budget, vin, vout, fw,
                 hook>>

\* the awaited loadProblemWords has returned
SingleAfterLoad ==
  /\ single.pc = "awaitLoad"
  /\ load[2].state = "done"
  /\ single' = [single EXCEPT !.pc = "fetch"]
  /\ fetchObs' = {}
  /\ UNCHANGED <<variant, now, storage, persisted, wordCache, errorLog,
                 problemWords, problemWordsLoaded, preload, load, gen,
                 budget, vin, vout, fw, hook>>

\* fetchWordListBySource(source) up to the network request
SingleFetch ==
  /\ single.pc = "fetch"
  /\ LET source == single.source
         url == UrlOfSource(variant, source)
     IN IF MapHas(wordCache, source)
          THEN /\ single' = Select(variant, single, wordCache[source],
                                   problemWordsLoaded, problemWords)
               /\ fetchObs' = {}
               /\ UNCHANGED <<wordCache, errorLog>>
          ELSE /\ fetchObs' = {Observe(variant, storage, now, persisted, url)}
               /\ IF CacheHit(variant, storage, now, url)
                    THEN /\ wordCache' = MapSet(wordCache, source,
                                                CachedData(storage, url))
                         /\ errorLog' = ClearError(variant, errorLog, source)
                         /\ single' = Select(variant, single,
                                             CachedData(storage, url),
                                             problemWordsLoaded, problemWords)
                    ELSE /\ single' = [single EXCEPT !.pc = "await"]
                         /\ UNCHANGED <<wordCache, errorLog>>
  /\ UNCHANGED <<variant, now, storage, persisted, problemWords,
                 problemWordsLoaded, preload, load, gen, budget, vin, vout,
                 fw, hook>>

\* the end of the request made for the source
SingleResponse ==
  /\ single.pc = "await"
  /\ LET source == single.source
         url == UrlOfSource(variant, source)
     IN \E resp \in Responses(url) \cup {TimedOut} :
       LET out == FetchOutcome(url, resp) IN
       IF out.ok
         THEN /\ storage' = Persist(storage, now, url, out.words)
              /\ persisted' = Record(persisted, now, url, out.words)
              /\ wordCache' = MapSet(wordCache, source, out.words)
              /\ errorLog' = ClearError(variant, errorLog, source)
              /\ single' = Select(variant, single, out.words,
                                  problemWordsLoaded, problemWords)
         ELSE /\ errorLog' = MapSet(errorLog, source, out.message)
              /\ UNCHANGED <<storage, persisted>>
              /\ IF CanFallBack(variant, wordCache, source)
                   THEN LET commonWords == wordCache[CommonId(variant)] IN
                        /\ wordCache' = MapSet(wordCache, source, commonWords)
                        /\ single' = Select(variant, single, commonWords,
                                            problemWordsLoaded, problemWords)
                   ELSE /\ single' = [single EXCEPT
                                        !.pc = "done",
                                        !.result = Rejected(out.message)]
                        /\ UNCHANGED wordCache
  /\ fetchObs' = {}
  /\ UNCHANGED <<variant, now, problemWords, problemWordsLoaded, preload,
                 load, gen, budget, vin, vout, fw, hook>>

\* one pass of the sampling loop; randomIndex is any index of availableWords
SingleDraw ==
  /\ single.pc = "sample"
  /\ Len(single.resultWords) < single.count
  /\ Len(single.availableWords) > 0
  /\ \E randomIndex \in 1..Len(single.availableWords) :
       LET picked == single.availableWords[randomIndex]
           res == AddAll(single.resultWords, <<picked>>)
           rest == RemoveAt(single.availableWords, randomIndex)
           o == [single EXCEPT !.resultWords = res, !.availableWords = rest]
       IN single' = IF Len(res) < single.count /\ Len(rest) > 0
                      THEN o
                      ELSE [o EXCEPT !.pc = "done", !.result = Resolved(res)]
  /\ fetchObs' = {}
  /\ UNCHANGED <<variant, now, storage, persisted, wordCache, errorLog,
                 problemWords, problemWordsLoaded, preload, load, gen,
                 budget, vin, vout, fw, hook>>

\* the caller takes the result
SingleReturn ==
  /\ single.pc = "done"
  /\ single' = [IdleSingle EXCEPT !.calls = single.calls]
  /\ fetchObs' = {}
  /\ UNCHANGED <<variant, now, storage, persisted, wordCache, errorLog,
                 problemWords, problemWordsLoaded, preload, load, gen,
                 budget, vin, vout, fw, hook>>

NextSingle ==
  \/ PreloadResponse
  \/ PreloadFallbackResponse
  \/ \E i \in 1..2 : \E u \in SAD_SOURCES : LoadResponse(i, u)
  \/ \E i \in 1..2 : LoadFinish(i)
  \/ \E length \in Lengths : \E source \in AllSourceIds :
       \E count \in SingleCounts : SingleCall(length, source, count)
  \/ SingleAfterLoad
  \/ SingleFetch
  \/ SingleResponse
  \/ SingleDraw
  \/ SingleReturn

SpecSingle == Init /\ [][NextSingle]_vars

(***************************************************************************)
(* useWordGenerator: the generateWords callback of the hook                *)
(***************************************************************************)
\* wordFilter.generateWordsFromMultipleSources(length, selectedSources, 100)
HookCount == 100

\* times the callback is invoked in one run
MaxHookCalls == 2

NoSelection == "Please select at least one word source"

\* the selections the callback is given: none, or one source
HookSelections == {s \in SourceLists : Len(s) <= 1}

\* the instance's maps, as one value
Maps(cache, log, st, per) ==
  [cache |-> cache, log |-> log, storage |-> st, persisted |-> per]

\* one iteration of the orchestrator's loop over m and g: the list of
\* sources[i] comes from wordCache, from localStorage, from a request that
\* succeeds (source in ok) or from the catch of a request answered 404
Visit(v, m, g, ok, t) ==
  LET source == g.sources[g.i]
      url == UrlOfSource(v, source)
      out == FetchOutcome(url, [status |-> "ok", body |-> Corpus(url)])
      bad == FetchOutcome(url, [status |-> "404", body |-> <<>>])
  IN IF MapHas(m.cache, source)
       THEN [m |-> m, g |-> Iterate(g, source, m.cache[source])]
     ELSE IF CacheHit(v, m.storage, t, url)
       THEN [m |-> [m EXCEPT !.cache = MapSet(@, source,
                                              CachedData(m.storage, url)),
                             !.log = ClearError(v, @, source)],
             g |-> Iterate(g, source, CachedData(m.storage, url))]
     ELSE IF source \in ok /\ out.ok
       THEN [m |-> [m EXCEPT !.storage = Persist(@, t, url, out.words),
                             !.persisted = Record(@, t, url, out.words),
                             !.cache = MapSet(@, source, out.words),
                             !.log = ClearError(v, @, source)],
             g |-> Iterate(g, source, out.words)]
     ELSE LET failed == IF source \in ok THEN out ELSE bad
              logged == [m EXCEPT !.log = MapSet(@, source, failed.message)]
          IN IF CanFallBack(v, m.cache, source)
               THEN [m |-> [logged EXCEPT
                              !.cache = MapSet(@, source,
                                               m.cache[CommonId(v)])],
                     g |-> Iterate(g, source, m.cache[CommonId(v)])]
               ELSE [m |-> logged, g |-> Thrown(g, source)]

RECURSIVE Orchestrate(_, _, _, _, _, _, _)
\* the orchestrator's loop and the code after it, from iteration g.i on
Orchestrate(v, m, g, ok, t, loaded, problem) ==
  IF g.pc # "loop" THEN [m |-> m, g |-> g]
  ELSE LET after == Visit(v, m, g, ok, t)
       IN Orchestrate(v, after.m, Advance(v, after.g, loaded, problem), ok,
                      t, loaded, problem)

\* generateWords(length, selectedSources) of the hook, up to its await; an
\* empty selection throws before any await, and catch and finally run at
\* once.  The callback takes the first free place of cb.
HookCall(k, length, selectedSources) ==
  /\ hook.cb[k].pc = "idle"
  /\ \A j \in 1..(k - 1) : hook.cb[j].pc # "idle"
  /\ hook.started < MaxHookCalls
  /\ \A j \in 1..Len(selectedSources) :
       selectedSources[j] \in SourceIds(variant)
  /\ LET seq == hook.started + 1
         h == [hook EXCEPT !.isLoading = TRUE, !.error = <<>>,
                           !.started = seq]
     IN IF Len(selectedSources) = 0
          THEN /\ hook' = [h EXCEPT !.error = <<NoSelection>>,
                                    !.isLoading = FALSE,
                                    !.last = Rejected(NoSelection)]
               /\ fetchObs' = {}
               /\ UNCHANGED <<load, problemWords>>
          ELSE LET wait == variant = "denylist" /\ ~problemWordsLoaded IN
               /\ hook' = [h EXCEPT !.cb[k] =
                             [pc |-> "await", seq |-> seq, length |-> length,
                              sources |-> selectedSources, wait |-> wait]]
               /\ IF wait
                    THEN /\ load' = [load EXCEPT
                                       ![2] = StartLoad(variant, storage, now)]
                         /\ problemWords' = problemWords \cup
                              CachedProblemWords(variant, storage, now)
                         /\ fetchObs' = {Observe(variant, storage, now,
                                                 persisted, u) :
                                           u \in SAD_SOURCES}
                    ELSE /\ fetchObs' = {}
                         /\ UNCHANGED <<load, problemWords>>
  /\ UNCHANGED <<variant, now, storage, persisted, wordCache, errorLog,
                 problemWordsLoaded, preload, gen, budget, vin, vout, fw,
                 single>>

\* the awaited generateWordsFromMultipleSources of callback k settles, and
\* the callback runs to its end: setGeneratedWords or setError, then
\* setIsLoading(false)
HookSettle(k) ==
  /\ hook.cb[k].pc = "await"
  /\ hook.cb[k].wait => load[2].state = "done"
  /\ LET c == hook.cb[k]
         g0 == [IdleGen EXCEPT !.length = c.length, !.sources = c.sources,
                               !.count = HookCount]
     IN \E ok \in SUBSET SeqToSet(c.sources) :
       LET end == Orchestrate(variant,
                              Maps(wordCache, errorLog, storage, persisted),
                              EnterLoop(variant, g0, problemWordsLoaded,
                                        problemWords),
                              ok, now, problemWordsLoaded, problemWords)
           res == end.g.result
           outcome == IF res.kind = "ok" THEN Resolved(res.words)
                                         ELSE Rejected(res.error)
           h == [hook EXCEPT !.cb[k] = IdleCallback, !.isLoading = FALSE,
                             !.last = IF c.seq = hook.started THEN outcome
                                                              ELSE @]
       IN /\ end.g.pc = "done"
          /\ wordCache' = end.m.cache
          /\ errorLog' = end.m.log
          /\ storage' = end.m.storage
          /\ persisted' = end.m.persisted
          /\ hook' = IF res.kind = "ok"
                       THEN [h EXCEPT !.generatedWords = res.words]
                       ELSE [h EXCEPT !.error = <<res.error>>]
  /\ fetchObs' = {}
  /\ UNCHANGED <<variant, now, problemWords, problemWordsLoaded, preload,
                 load, gen, budget, vin, vout, fw, single>>

NextHook ==
  \/ PreloadResponse
  \/ PreloadFallbackResponse
  \/ \E i \in 1..2 : \E u \in SAD_SOURCES : LoadResponse(i, u)
  \/ \E i \in 1..2 : LoadFinish(i)
  \/ \E k \in 1..2 : \E length \in Lengths : \E sources \in HookSelections :
       HookCall(k, length, sources)
  \/ \E k \in 1..2 : HookSettle(k)

SpecHook == Init /\ [][NextHook]_vars

(***************************************************************************)
(* Properties of generateWordsFromMultipleSources (under Spec)             *)
(***************************************************************************)
Finished == gen.pc = "done"

Selected == SeqToSet(gen.sources)

\* some word that passed validation is in the list obtained for source s
ContributesValid(s) ==
  /\ MapHas(wordCache, s)
  /\ \E w \in SeqToSet(gen.validWords) : w \in SeqToSet(wordCache[s])

\* C1: when the request for one selected source is answered 404 and another
\* selected source succeeds and contributes a valid word, the call returns
\* normally and the source answered 404 is listed in failedSources, whatever
\* wordCache holds.
C1_FailedSourceReported ==
  \A bad \in gen.notFound : \A good \in gen.fetchedOk \ gen.fetchFailed :
    (Finished /\ good # bad /\ ContributesValid(good))
      => /\ gen.result.kind = "ok"
         /\ bad \in SeqToSet(gen.result.failedSources)

\* no list obtained for a selected source has a word of the requested length
NoWordOfLength ==
  \A s \in Selected :
    MapHas(wordCache, s) =>
      \A k \in 1..Len(wordCache[s]) : Len(wordCache[s][k]) # gen.length

\* C2: the error 'Could not fetch words from any of the selected sources' is
\* raised only when the fetch of every selected source failed; when every
\* fetch succeeds and no fetched word has the requested length, the error is
\* 'No valid words of length N found in the selected sources'.
C2_ErrorKinds ==
  Finished =>
    /\ gen.result.error = AllSourcesFailed => gen.fetchFailed = Selected
    /\ (/\ gen.sources # <<>>
        /\ gen.fetchedOk = Selected
        /\ gen.fetchFailed = {}
        /\ NoWordOfLength) => gen.result.error = NoMatches

\* C3: a call with an empty list of sources ends at once with the input
\* error: no request is made, no lookup of a list happens, and the word
\* cache, the error log and localStorage stay as they are.
C3_EmptySelectionRejected ==
  [][(gen.pc = "idle" /\ gen'.pc # "idle" /\ gen'.sources = <<>>)
       => /\ gen'.pc = "done"
          /\ gen'.result = Raised(InputError)
          /\ fetchObs' = {}
          /\ UNCHANGED <<wordCache, errorLog, storage, persisted, preload,
                         load, problemWords, problemWordsLoaded>>]_vars

C3_Witness ==
  /\ Finished
  /\ gen.sources = <<>>
  /\ gen.result = Raised(InputError)

\* the call of the worked example, served the corpus of the example
CommonExample ==
  /\ Finished
  /\ gen.length = 5
  /\ gen.sources = <<"common">>
  /\ gen.count = DefaultCount
  /\ gen.fetchedOk = {"common"}
  /\ MapHas(wordCache, "common")
  /\ SeqToSet(wordCache["common"]) =
       {apple, grape, mango, candy, zebra, qwxyz}

\* C4 as stated: length 5, sources ['common'], count 100, against a 'common'
\* corpus of exactly apple, grape, mango, candy, zebra and qwxyz, returns the
\* words apple, grape, mango, candy and zebra with failedSources empty.
C4_CommonExampleWithZebra ==
  CommonExample =>
    /\ gen.result.kind = "ok"
    /\ SeqToSet(gen.result.words) = {apple, grape, mango, candy, zebra}
    /\ gen.result.failedSources = <<>>

\* C4 amended: the same call returns exactly apple, grape, mango and candy,
\* each once, with failedSources empty; zebra is rejected for its first
\* letter and qwxyz as an abbreviation.
C4_CommonExample ==
  CommonExample =>
    /\ gen.result.kind = "ok"
    /\ SeqToSet(gen.result.words) = {apple, grape, mango, candy}
    /\ Len(gen.result.words) = 4
    /\ gen.result.failedSources = <<>>

C4_Witness == CommonExample /\ gen.result.kind = "ok"

Pool == SeqToSet(gen.validWords)

\* C5: when count is at least the size of the pool of valid words, the call
\* returns exactly the pool: the same elements, none left out, none twice.
C5_WholePool ==
  (Finished /\ gen.result.kind = "ok" /\ gen.count >= Len(gen.validWords))
    => /\ SeqToSet(gen.result.words) = Pool
       /\ Len(gen.result.words) = Cardinality(Pool)

C5_Witness ==
  /\ Finished
  /\ gen.result.kind = "ok"
  /\ gen.count >= Len(gen.validWords)
  /\ Len(gen.sources) = 2
  /\ Len(gen.result.words) >= 2

\* C6: when count is less than the size of the pool, the call returns exactly
\* count distinct elements of the pool, for every sequence of random indices,
\* and the sampling loop makes exactly count draws.
C6_ExactSample ==
  /\ gen.pc = "sample"
       => /\ gen.draws = Len(gen.resultWords)
          /\ gen.draws < gen.count
  /\ (Finished /\ gen.result.kind = "ok" /\ gen.count < Len(gen.validWords))
       => /\ Len(gen.result.words) = gen.count
          /\ Cardinality(SeqToSet(gen.result.words)) = gen.count
          /\ SeqToSet(gen.result.words) \subseteq Pool
          /\ gen.draws = gen.count

C6_Witness ==
  /\ Finished
  /\ gen.result.kind = "ok"
  /\ gen.count < Len(gen.validWords)
  /\ gen.draws = gen.count
  /\ Len(gen.result.words) = SmallCount

\* C9: once a network fetch has persisted the list of a URL, a lookup of the
\* same URL inside the freshness window is served from localStorage, without
\* a request, and yields the very list that fetch persisted.
C9_CacheRoundTrip ==
  \A o \in fetchObs :
    o.expect # <<>> => (o.viaCache /\ o.data = o.expect)

(***************************************************************************)
(* Properties of validateWord (under SpecValidate and SpecLoading)         *)
(***************************************************************************)
\* the form of the argument that validateWord examines
Normalised(w) == trim(toLowerCase(w))

\* only a-z, 3 to 9 letters, at least one of a, e, i, o, u, y
WellShaped(w) ==
  /\ w # <<>>
  /\ \A i \in 1..Len(w) : w[i] \in LowerSet
  /\ Len(w) >= 3
  /\ Len(w) <= 9
  /\ \E i \in 1..Len(w) : w[i] \in {"a", "e", "i", "o", "u", "y"}

\* C7 as stated: every word w that validateWord accepts consists only of the
\* letters a-z, has between 3 and 9 letters and contains one of a, e, i, o,
\* u, y.
C7_AcceptedArgumentShape == vout.isValid => WellShaped(vin)

\* C7 amended: for every argument w that validateWord accepts, the lowercased
\* and trimmed form of w consists only of the letters a-z, has between 3 and
\* 9 letters and contains one of a, e, i, o, u, y.
C7_AcceptedShape == vout.isValid => WellShaped(Normalised(vin))

C7_Witness == vout.isValid /\ Len(Normalised(vin)) = 9

\* ceil(n / 2)
HalfUp(n) == (n + 1) \div 2

AtMostHalf(w) ==
  \A c \in LettersOf(w) :
    c \in LowerSet \cup UpperSet => CountOf(w, c) <= HalfUp(Len(w))

\* C8: in a word accepted by validateWord, in the strict and in the denylist
\* variant, no letter occurs more than ceil(len / 2) times; this holds of the
\* argument and of its lowercased and trimmed form.
C8_RepetitionCap ==
  (vout.isValid /\ variant \in {"strict", "denylist"})
    => AtMostHalf(vin) /\ AtMostHalf(Normalised(vin))

C8_Witness ==
  /\ vout.isValid
  /\ variant = "strict"
  /\ MaxCount(Normalised(vin)) >= 2

C8_WitnessDenylist ==
  /\ vout.isValid
  /\ variant = "denylist"
  /\ MaxCount(Normalised(vin)) = HalfUp(Len(Normalised(vin)))

\* C10: validateWord(w) returns the same isValid and reason whenever it is
\* called on an instance: what a call returns is what the call returns on
\* the instance as constructed, whatever happened since, and in particular
\* after the problem words were loaded.
C10_SameResultAlways ==
  vout # NoCall => vout = validateWord(variant, vin, FALSE, {})

(***************************************************************************)
(* Properties of the loop over the sources (under Spec)                    *)
(***************************************************************************)
\* the sources the loop has dealt with, in order
Processed == gen.successSources \o gen.failedSources

Occurrences(seq, x) == Cardinality({k \in 1..Len(seq) : seq[k] = x})

\* the list obtained for s has no word of the requested length
EmptyContribution(s) ==
  /\ s \in gen.fetchedOk
  /\ MapHas(wordCache, s)
  /\ \A k \in 1..Len(wordCache[s]) : Len(wordCache[s][k]) # gen.length

\* C11: when generateWordsFromMultipleSources returns, every selected source
\* was processed exactly once, and a source is in failedSources if and only
\* if its fetch failed or its fetched list had no word of the requested
\* length; a failing source does not stop the sources after it.
C11_FailedExactly ==
  (Finished /\ gen.result.kind = "ok") =>
    \A s \in Selected :
      /\ Occurrences(Processed, s) = 1
      /\ s \in SeqToSet(gen.result.failedSources)
           <=> (s \in gen.fetchFailed \/ EmptyContribution(s))

\* C12: the words returned by generateWordsFromMultipleSources hold no word
\* twice, also when a word is in the lists of several selected sources or
\* several times in the list of one.
C12_NoWordTwice ==
  (Finished /\ gen.result.kind = "ok")
    => Len(gen.result.words) = Cardinality(SeqToSet(gen.result.words))

\* a returned word that two selected sources list, one of them twice
C12_Witness ==
  /\ Finished
  /\ gen.result.kind = "ok"
  /\ Len(gen.sources) = 2
  /\ \E w \in SeqToSet(gen.result.words) :
       /\ \A s \in Selected :
            MapHas(wordCache, s) /\ w \in SeqToSet(wordCache[s])
       /\ \E s \in Selected : Occurrences(wordCache[s], w) >= 2

\* the words of the list that the URL of source s serves
SourceCorpus(s) == SeqToSet(ParseBody(Corpus(UrlOfSource(variant, s))))

\* C13: every word returned by generateWordsFromMultipleSources has the
\* requested length, was accepted by validateWord, and is a word of the list
\* fetched for one of the selected sources, also when a fetch fell back.
C13_ReturnedWords ==
  (Finished /\ gen.result.kind = "ok") =>
    \A w \in SeqToSet(gen.result.words) :
      /\ Len(w) = gen.length
      /\ w \in SeqToSet(gen.validWords)
      /\ validateWord(variant, w, FALSE, {}).isValid
      /\ \E s \in Selected : w \in SourceCorpus(s)

(***************************************************************************)
(* Properties of the error log                                             *)
(***************************************************************************)
\* fetchWordListBySource(s) returns a list in this step
FetchSucceeds(s) == s \notin gen.fetchedOk /\ s \in gen'.fetchedOk

\* C14: a fetchWordListBySource(id) that succeeds, whether from the network,
\* the persisted cache or the in-memory cache, leaves no error-log entry for
\* id: the log holds an entry only if the latest attempt for id failed.
C14_SuccessClearsError ==
  [][\A s \in AllSourceIds : FetchSucceeds(s) => ~MapHas(errorLog', s)]_vars

\* the request made for fetchWordListBySource(s) fails in this step
FetchFails(s) == s \notin gen.fetchFailed /\ s \in gen'.fetchFailed

\* the caller of fetchWordListBySource(s) caught the failure: it took no list
\* for s, and the step cached no list
Propagated(s) ==
  /\ s \in SeqToSet(gen'.failedSources)
  /\ s \notin SeqToSet(gen'.successSources)
  /\ wordCache' = wordCache

\* C15: when the fetch for a source id fails, fetchWordListBySource records
\* the message in the error log under that id and propagates the failure
\* to its caller instead of returning a word list.
C15_FailureLoggedAndPropagated ==
  [][\A s \in AllSourceIds :
       FetchFails(s) => MapHas(errorLog', s) /\ Propagated(s)]_vars

\* some problem-word fetch of the instance has failed
ProblemFetchFailed == \E i \in 1..2 : load[i].failed # {}

\* C16: no error is swallowed: when generateWordsFromMultipleSources returns
\* or raises, every id in failedSources has an entry in the error log, every
\* source whose fetch failed has one, and a failed problem-word fetch has
\* left a message in the error log.
C16_NoErrorSwallowed ==
  /\ Finished =>
       \A s \in SeqToSet(gen.failedSources) \cup gen.fetchFailed :
         MapHas(errorLog, s)
  /\ ProblemFetchFailed => errorLog # EmptyMap

(***************************************************************************)
(* Properties of the registry lookup (under SpecRegistry)                  *)
(***************************************************************************)
\* this step is fetchWordListBySource(UnknownId) calling fetchWordList
UnknownRequested ==
  /\ gen.pc = "loop"
  /\ gen.sources[gen.i] = UnknownId
  /\ ~MapHas(wordCache, UnknownId)
  /\ gen' # gen

\* fetchWordListBySource(UnknownId) has returned a list: it caches it
UnknownReturned == MapHas(wordCache, UnknownId)

\* C17: an id that is not in the registry resolves to the default general
\* corpus: fetchWordListBySource asks for the common-words URL, and the
\* list it returns is the list of that corpus.
C17_UnknownIdIsCommon ==
  [][/\ UnknownRequested =>
          fetchObs' # {} /\ \A o \in fetchObs' : o.url = COMMON_WORDS
     /\ UnknownReturned' =>
          wordCache'[UnknownId] = ParseBody(Corpus(COMMON_WORDS))]_vars

(***************************************************************************)
(* Properties of the sampling loop (under Spec)                            *)
(***************************************************************************)
RECURSIVE Sample(_, _, _)
\* the sampling loop run with the values of randomIndex that path lists
Sample(available, result, path) ==
  IF path = <<>>
    THEN [resultWords |-> result, availableWords |-> available]
    ELSE Sample(RemoveAt(available, Head(path)),
                AddAll(result, <<available[Head(path)]>>),
                Tail(path))

\* The values randomIndex can take over c draws from n words: the j-th lies
\* in 1..n-j+1.  Math.floor(Math.random() * availableWords.length) gives
\* each index of a draw the same weight, so every path has the same weight.
Paths(n, c) ==
  {path \in [1..c -> 1..n] : \A j \in 1..c : path[j] <= n - j + 1}

\* for each path, the set of words it yields
Yield(pool, c) ==
  [path \in Paths(Len(pool), c) |->
     SeqToSet(Sample(pool, <<>>, path).resultWords)]

Subsets(pool, c) == {S \in SUBSET SeqToSet(pool) : Cardinality(S) = c}

\* the sampling loop is running or has run
Sampling == gen.pc = "sample" \/ (Finished /\ gen.draws > 0)

\* C18: when count is less than the size of the pool, sampling is uniform
\* over the subsets of that size: the loop's state is the result of some
\* path of indices, every subset of size count is the result of the same,
\* positive, number of equally weighted paths, and every position of the
\* pool is in the result of the same number of paths.
C18_UniformSample ==
  Sampling =>
    LET pool == gen.validWords
        n == Len(pool)
        c == gen.count
        yield == Yield(pool, c)
        hits == [S \in Subsets(pool, c) |->
                   Cardinality({path \in DOMAIN yield : yield[path] = S})]
        picks == [k \in 1..n |->
                    Cardinality({path \in DOMAIN yield :
                                   pool[k] \in yield[path]})]
    IN /\ c < n
       /\ \E path \in Paths(n, gen.draws) :
            Sample(pool, <<>>, path) =
              [resultWords |-> gen.resultWords,
               availableWords |-> gen.availableWords]
       /\ gen.draws = 0 =>
            /\ \A S \in DOMAIN hits : hits[S] > 0
            /\ \A S, T \in DOMAIN hits : hits[S] = hits[T]
            /\ \A j, k \in 1..n : picks[j] = picks[k]

\* a sample made of the last words of the pool, taken last first
C18_Witness ==
  /\ Finished
  /\ gen.draws = 2
  /\ Len(gen.validWords) > 3
  /\ gen.result.words =
       <<gen.validWords[Len(gen.validWords)],
         gen.validWords[Len(gen.validWords) - 1]>>

(***************************************************************************)
(* Properties of the requests in flight (under Spec)                       *)
(***************************************************************************)
\* the url of the request the orchestrator waits for
GenRequestsUrl(url) ==
  /\ gen.pc \in {"await", "awaitBody"}
  /\ UrlOfSource(variant, gen.sources[gen.i]) = url

\* the url of the request the preload waits for
PreloadRequestsUrl(url) ==
  \/ preload.pc = "fetch" /\ url = COMMON_WORDS
  \/ preload.pc = "fallbackFetch" /\ url = ENABLE_WORDS

\* the number of network requests for url that are waiting for a response
RequestsInFlight(url) ==
  (IF PreloadRequestsUrl(url) THEN 1 ELSE 0)
  + (IF GenRequestsUrl(url) THEN 1 ELSE 0)
  + Cardinality({i \in 1..2 : url \in load[i].pending})

\* C19: no two network requests for the same source are in flight at once:
\* while one fetch is waiting for its response, a concurrent fetch of the
\* same list does not start a second request.
C19_OneRequestPerSource ==
  \A url \in Urls : RequestsInFlight(url) <= 1

\* the orchestrator's fetchWordList waits for the network
GenWaits == gen.pc \in {"await", "awaitBody"}

\* C20: every network fetch is bounded by its deadline: while fetchWordList
\* waits for the response or for its body the timer is armed, so that the
\* wait can end with the abort and the timeout error.
C20_DeadlineCoversFetch ==
  GenWaits => gen.timer = "armed" /\ Deliverable(gen, TimedOut)

(***************************************************************************)
(* Properties of fetchWordList (under SpecFetch)                           *)
(***************************************************************************)
\* fetchWordList returns in this step from a network response
Answered == fw.pc = "await" /\ fw'.pc = "done"

\* no token of the body matches /^[a-z]+$/ once trimmed and lower-cased
NoToken(url, body) ==
  \A i \in 1..Len(body) : ~IsLowerAlpha(NormLine(Tokens(url, body)[i]))

\* C21: when the body of a response yields no token matching ^[a-z]+$
\* after normalisation, fetchWordList fails with the empty-result error and
\* writes nothing to the persisted cache.
C21_EmptyResultFails ==
  [][(Answered /\ fw'.resp.status = "ok" /\ NoToken(fw.url, fw'.resp.body))
       => /\ fw'.result = Failure(EmptyResult)
          /\ storage' = storage]_vars

C21_Witness ==
  /\ fw.pc = "done"
  /\ ~fw.viaCache
  /\ fw.resp.body = JunkBody
  /\ fw.result = Failure(EmptyResult)
  /\ fw.url = COMMON_WORDS
  /\ ~MapHas(storage, cacheKey(COMMON_WORDS))

\* fetchWordList returned what it read from localStorage
ServedFromCache == fw.pc = "done" /\ fw.viaCache

\* a list of lower-case alphabetic words
WordList(data) == \A k \in 1..Len(data) : IsLowerAlpha(data[k])

\* an entry that parses, has a list of words and a timestamp within the
\* window at time t
Usable(e, t) ==
  /\ e.kind = "json"
  /\ WordList(e.data)
  /\ t - e.timestamp < FreshWindow(variant)

\* C22: a persisted entry that is missing, unparsable, of the wrong shape
\* or older than the freshness window is never returned: fetchWordList
\* returns the entry it read only if that entry is usable.
C22_BadEntryNotReturned == ServedFromCache => Usable(fw.read, fw.at)

\* fetchWordList has returned a list
ListReturned == fw.pc = "done" /\ fw.result.ok

\* C23: every list fetchWordList returns holds only tokens that match
\* ^[a-z]+$, and a list made from a response holds every token of the body
\* that matches once trimmed and lower-cased, in text, JSON and CSV alike.
C23_TokensNormalised ==
  ListReturned =>
    /\ WordList(fw.result.words)
    /\ ~fw.viaCache =>
         fw.result.words = ParseBody(Tokens(fw.url, fw.resp.body))

(***************************************************************************)
(* Properties of the checks of validateWord (under SpecValidate)           *)
(***************************************************************************)
\* The checks in the order type/non-empty, character class, length,
\* profanity, vowel, repetition, abbreviation, regional spelling, uncommon
\* pattern: whether the word fails each one, and the reason the check
\* gives.  The denylist class has no abbreviation check: its test against
\* the problem words stands at that place.
ChecksInOrder(v, raw, loaded, problem) ==
  LET word == trim(toLowerCase(raw)) IN
  << [fails |-> raw = <<>>, reason |-> "Invalid input"],
     [fails |-> ~IsLowerAlpha(word),
      reason |-> "Word must contain only letters"],
     [fails |-> LengthOutOfBounds(word),
      reason |-> "Word must be between 3 and 9 letters"],
     [fails |-> isProfane(word), reason |-> "Word is inappropriate"],
     [fails |-> ~hasVowel(word),
      reason |-> "Word must contain at least one vowel"],
     [fails |-> hasExcessiveRepetition(v, word),
      reason |-> IF v = "denylist"
                   THEN "Word has problematic letter repetition"
                   ELSE "Word has too many repeated letters"],
     IF v = "denylist"
       THEN [fails |-> loaded /\ word \in problem,
             reason |-> "Word is in the problematic words list"]
       ELSE [fails |-> isAbbreviation(v, word),
             reason |-> "Word appears to be an abbreviation or acronym"],
     [fails |-> IF v = "denylist" THEN isUKSpelling(word)
                                  ELSE hasUKSpelling(word),
      reason |-> "UK spelling variant"],
     [fails |-> IF v = "denylist" THEN hasUncommonLetterPatterns(word)
                                  ELSE uncommonPatternsStrict(word),
      reason |-> "Contains uncommon letter patterns"] >>

\* the positions of the checks the word fails
Failing(checks) == {k \in 1..Len(checks) : checks[k].fails}

\* the reason of the earliest failing check
EarliestReason(checks) ==
  LET first == CHOOSE k \in Failing(checks) :
                 \A j \in Failing(checks) : k <= j
  IN checks[first].reason

InLengthRange(w) == IsLowerAlpha(w) /\ ~LengthOutOfBounds(w)

\* C25: the repetition rule of the denylist class only adds rejections to
\* the strict rule: every word of 3 to 9 letters that the strict rule
\* rejects is rejected by the denylist rule too.
C25_DenylistRejectsMore ==
  LET word == Normalised(vin) IN
  (vout # NoCall /\ InLengthRange(word)
     /\ hasExcessiveRepetitionStrict(word))
    => hasExcessiveRepetitionDenylist(word)

(***************************************************************************)
(* The regional-spelling check (under SpecValidate)                        *)
(***************************************************************************)
\* the regional-spelling check validateWord applies in variant v
regionalCheck(v, w) ==
  IF v = "denylist" THEN isUKSpelling(w) ELSE hasUKSpelling(w)

\* the word ends in 'our', 'ise', 'yse', 're' or 'ogue', or holds 'ae' or
\* 'oe' anywhere
EndsRegional(w) ==
  \/ EndsWith(w, <<"o","u","r">>)
  \/ EndsWith(w, <<"i","s","e">>)
  \/ EndsWith(w, <<"y","s","e">>)
  \/ EndsWith(w, <<"r","e">>)
  \/ EndsWith(w, <<"o","g","u","e">>)
  \/ Contains(w, <<"a","e">>)
  \/ Contains(w, <<"o","e">>)

\* C26: the regional-spelling check rejects the word validateWord was given
\* if and only if the word ends in 'our', 'ise', 'yse', 're' or 'ogue' or
\* contains 'ae' or 'oe'; 'our', 'ise' or 'yse' before the end of the word
\* does not make the check reject
C26_RegionalIffEnding ==
  LET word == Normalised(vin) IN
  (vout # NoCall /\ InLengthRange(word))
    => (regionalCheck(variant, word) <=> EndsRegional(word))

(***************************************************************************)
(* Persisted entries and the urls they belong to (under SpecFetch)         *)
(***************************************************************************)
\* the call returned an entry of localStorage that a fetch of this run wrote
ServedPersisted ==
  ServedFromCache /\ MapHas(fw.writer, cacheKey(fw.url))

\* C27: fetchWordList(url) never returns a list that a fetch of another
\* catalog url persisted, also when both urls end in the same path segment
C27_NoAliasing ==
  ServedPersisted => fw.writer[cacheKey(fw.url)] = fw.url

(***************************************************************************)
(* The in-memory word cache (under Spec)                                   *)
(***************************************************************************)
\* wordCache holds for s a list of the corpus of s
OwnCorpus(cache, s) == SeqToSet(cache[s]) \subseteq SourceCorpus(s)

\* C28: a fetchWordListBySource(id) whose fetch fails leaves wordCache as it
\* was, with no entry made for id, and whatever wordCache holds for an id is
\* a list fetched for the corpus of that id
C28_CacheHoldsOwnCorpus ==
  [][/\ \A s \in AllSourceIds : FetchFails(s) => wordCache' = wordCache
     /\ \A s \in DOMAIN wordCache' : OwnCorpus(wordCache', s)]_vars

(***************************************************************************)
(* Properties of generateWords (under SpecSingle)                          *)
(***************************************************************************)
\* generateWords has returned a list
SingleReturned == single.pc = "done" /\ single.result.kind = "ok"

\* C29: the list generateWords returns holds no word twice, and holds
\* exactly count words when the list of the source has more than count
\* distinct valid words of the requested length, also when the fetched list
\* holds a word more than once
C29_SingleNoRepeat ==
  SingleReturned =>
    LET words == single.result.words IN
    /\ Len(words) = Cardinality(SeqToSet(words))
    /\ Cardinality(SeqToSet(single.validWords)) > single.count
         => Len(words) = single.count

(***************************************************************************)
(* Properties of the useWordGenerator hook (under SpecHook)                *)
(***************************************************************************)
\* the callbacks whose generateWordsFromMultipleSources has not settled
Pending == {k \in 1..2 : hook.cb[k].pc = "await"}

\* generatedWords and error show the outcome of the call started last
ShowsLast ==
  /\ hook.last.kind = "ok" =>
       hook.generatedWords = hook.last.words /\ hook.error = <<>>
  /\ hook.last.kind = "error" => hook.error = <<hook.last.error>>

\* C30: isLoading is true whenever a generateWords call of the hook is in
\* flight, also when two calls overlap; once every call has completed,
\* isLoading is false and generatedWords and error are those of the call
\* that was started last
C30_LoadingCoversCalls ==
  /\ Pending # {} => hook.isLoading
  /\ (Pending = {} /\ hook.started > 0) => ~hook.isLoading /\ ShowsLast

====
